---- MODULE Spec2Model ----
(***************************************************************************)
(* Flash-flood dashboard: the map page (LeafletMap), its three hooks       *)
(* (useMapState, useStationSearch, useStationEvents) and the side panel's  *)
(* tab buttons, as one state machine.                                      *)
(*                                                                         *)
(* Strings are sequences of one-character strings, so that trim, prefix    *)
(* and substring tests are computed and not assumed.  A null / undefined   *)
(* string is the value Null.  A date-only string is a natural number, ''   *)
(* being 0: JavaScript's string order on YYYY-MM-DD values is the order of *)
(* the numbers, and '' is below every date and falsy, as 0 is here.        *)
(* An optional object (T | null) is a sequence of length at most one.      *)
(***************************************************************************)
EXTENDS Integers, Sequences, FiniteSets

VARIABLES
    stations,             \* useSWR('stations:all').data, [] until loaded
    mapInstance,          \* TRUE once MapInstanceWatcher handed the map over
    basinTab,             \* <<>> or <<[basinName, stationCount]>>
    stationTab,           \* <<>> or <<station>>
    activeTab,            \* "basin" | "station" | "none" (null)
    selectedStationId,    \* useMapState: Null or a station id
    previewStationId,     \* useMapState: Null or a station id
    searchText,           \* useStationSearch
    searchHint,           \* useStationSearch: "" or one of the three hints
    selectedSearchItem,   \* useStationSearch: <<>> or <<[label, type]>>
    peakDateRangeByTab,   \* useStationEvents: key -> [start, end]
    selectedPresetByTab,  \* useStationEvents: key -> preset id or "null"
    swrCache,             \* SWR's cache: request url -> [data, error, loading]
    op,                   \* the last handler that ran, its input and the tabs before it
    closedKeys,           \* the keys of the tabs closed by their button and not opened since
    burst                 \* the date edits in quick succession and the ranged requests in them

vars == <<stations, mapInstance, basinTab, stationTab, activeTab, selectedStationId,
          previewStationId, searchText, searchHint, selectedSearchItem,
          peakDateRangeByTab, selectedPresetByTab, swrCache, op, closedKeys, burst>>

mapVars == <<basinTab, stationTab, activeTab, selectedStationId, previewStationId>>
searchVars == <<searchText, searchHint, selectedSearchItem>>
panelVars == <<peakDateRangeByTab, selectedPresetByTab>>

-----------------------------------------------------------------------------
(* Bounds of the model *)

\* longest station list a data set holds
MaxStations == 3
\* latest date the date inputs are given (dates are 1..MaxDate, '' is 0)
MaxDate == 3
\* most ranged requests the model lets start
MaxRangeFetches == 2
\* longest series the chart derivations are given
MaxSeries == 4

-----------------------------------------------------------------------------
(* Strings *)

Null == <<"null">>

Truthy(s) == s # Null /\ s # <<>>

IsSpace(c) == c = " "

RECURSIVE TrimStart(_)
TrimStart(s) == IF s # <<>> /\ IsSpace(Head(s)) THEN TrimStart(Tail(s)) ELSE s

RECURSIVE TrimEnd(_)
TrimEnd(s) ==
    IF s # <<>> /\ IsSpace(s[Len(s)]) THEN TrimEnd(SubSeq(s, 1, Len(s) - 1)) ELSE s

\* String.prototype.trim
Trim(s) == TrimEnd(TrimStart(s))

\* value?.trim(): undefined for a null value
OptTrim(s) == IF s = Null THEN Null ELSE Trim(s)

\* String.prototype.startsWith
StartsWith(s, p) == Len(p) <= Len(s) /\ SubSeq(s, 1, Len(p)) = p

\* String.prototype.includes
Includes(s, p) ==
    Len(p) <= Len(s) /\ \E i \in 0..(Len(s) - Len(p)) : SubSeq(s, i + 1, i + Len(p)) = p

\* case folding of one character
Fold(c) == CASE c = "A" -> "a" [] c = "B" -> "b" [] c = "C" -> "c" [] OTHER -> c

\* mapUtils.normalizeText: trims and case-folds; a null name normalizes to ''
normalizeText(s) ==
    IF s = Null THEN <<>> ELSE [i \in 1..Len(Trim(s)) |-> Fold(Trim(s)[i])]

-----------------------------------------------------------------------------
(* Arrays *)

\* the scan of Array.prototype.find / findIndex over the per-element test results:
\* the 1-based position of the first TRUE at or after i, 0 when there is none
RECURSIVE FirstTrueFrom(_, _)
FirstTrueFrom(flags, i) ==
    IF i > Len(flags) THEN 0
    ELSE IF flags[i] THEN i
    ELSE FirstTrueFrom(flags, i + 1)

FirstTrue(flags) == FirstTrueFrom(flags, 1)

-----------------------------------------------------------------------------
(* Stations and the data sets the station listing can return *)

Station(id, n1, n2, n3, basin) ==
    [station_id |-> id, station_name |-> n1, station_name2 |-> n2,
     station_name3 |-> n3, basin_name |-> basin]

\* Names overlap on purpose: basin "cAb" contains "ab", "Abc" starts with it,
\* "Ab" and " Ab " equal it once trimmed and folded; station names equal or
\* contain it; one basin name is whitespace only and one is null.
StationPool ==
    { Station(<<"1">>, <<"a", "b">>, Null, Null, <<"c", "A", "b">>),
      Station(<<"2">>, <<"A", "b", "c">>, <<"b">>, Null, <<"A", "b", "c">>),
      Station(<<"3">>, <<"c">>, Null, <<"c", "a", "b">>, <<"A", "b">>),
      Station(<<"4">>, <<"b", "a", "b">>, Null, Null, <<" ", "A", "b", " ">>),
      Station(<<"5">>, <<" ", "a", "b">>, Null, Null, <<" ", " ">>),
      Station(<<"6">>, Null, <<"C", "a", "b">>, <<>>, Null) }

\* station lists of at most n stations with unique ids, in any order
StationLists(n) ==
    { l \in UNION { [1..k -> StationPool] : k \in 0..n } :
        \A i, j \in 1..Len(l) : i # j => l[i].station_id # l[j].station_id }

\* the two-station lists the side panel is exercised with
PanelStationLists ==
    { l \in StationLists(2) :
        /\ Len(l) = 2
        /\ l[1].station_id = <<"3">>
        /\ l[2].station_id \in {<<"4">>, <<"5">>} }

\* the data set of one station, with events on two dates, in a basin of its own
SoloStationLists ==
    { l \in StationLists(1) : Len(l) = 1 /\ l[1].station_id = <<"3">> }

\* ten names that start with "a" once folded, in descending order, and one that
\* does not
SuggestNames ==
    << <<"a", "c">>, <<"a", "C">>, <<"a", "b", "b">>, <<"a", "b", "a">>, <<"a", "B">>,
       <<"a", "b">>, <<"a", "A">>, <<"a", "a">>, <<"A">>, <<"a">>, <<"b">> >>

\* a data set of one station per name, in a basin of that name, and two more
\* stations whose names and basins repeat earlier ones once trimmed
ManyStations ==
    [i \in 1..Len(SuggestNames) |->
        Station(<<"n">> \o SuggestNames[i], SuggestNames[i], Null, Null, SuggestNames[i])]
    \o << Station(<<"p">>, <<" ", "a", "b">>, <<"a", "c", "c">>, Null, <<"a", "b", " ">>),
          Station(<<"q">>, <<"a", "C">>, Null, <<"a", "c", "c">>, <<" ", "a", "C">>) >>

\* the data sets the suggestions are computed on
SuggestStationLists == StationLists(MaxStations - 1) \cup {ManyStations}

\* what the search box is given
Keywords ==
    { <<>>, <<" ">>, <<"a", "b">>, <<"A", "b", " ">>, <<"b">>, <<"c">>, <<"b", "b">> }

-----------------------------------------------------------------------------
(* LeafletMap: the derived search indexes *)

\* position of the group called name, 0 when there is none (Map.prototype.get)
GroupIndex(groups, name) ==
    FirstTrue([i \in 1..Len(groups) |-> groups[i].name = name])

\* basinGroups: a Map in insertion order, as a sequence of [name, members]
RECURSIVE GroupInto(_, _)
GroupInto(groups, sts) ==
    IF sts = <<>> THEN groups
    ELSE LET station == Head(sts)
             name == OptTrim(station.basin_name)
             i == GroupIndex(groups, name)
         IN  IF ~Truthy(name) THEN GroupInto(groups, Tail(sts))
             ELSE IF i = 0
                  THEN GroupInto(Append(groups, [name |-> name, members |-> <<station>>]),
                                 Tail(sts))
                  ELSE GroupInto([groups EXCEPT ![i].members = Append(@, station)],
                                 Tail(sts))

BasinGroups(sts) == GroupInto(<<>>, sts)

\* basinGroups.get(name) ?? []
GroupMembers(groups, name) ==
    LET i == GroupIndex(groups, name) IN IF i = 0 THEN <<>> ELSE groups[i].members

BasinSearchIndex(groups) ==
    [i \in 1..Len(groups) |->
        [name |-> groups[i].name, normalizedName |-> normalizeText(groups[i].name)]]

NonEmpty(s) == s # <<>>

StationSearchIndex(sts) ==
    [i \in 1..Len(sts) |->
        [station |-> sts[i],
         names |-> SelectSeq(<<normalizeText(sts[i].station_name),
                               normalizeText(sts[i].station_name2),
                               normalizeText(sts[i].station_name3)>>, NonEmpty)]]

basinGroups == BasinGroups(stations)
basinSearchIndex == BasinSearchIndex(basinGroups)
stationSearchIndex == StationSearchIndex(stations)

\* mapUtils.stationDisplayName: the first name the station has, else its id
stationDisplayName(station) ==
    IF Truthy(station.station_name) THEN station.station_name
    ELSE IF Truthy(station.station_name2) THEN station.station_name2
    ELSE IF Truthy(station.station_name3) THEN station.station_name3
    ELSE station.station_id

-----------------------------------------------------------------------------
(* useStationSearch.performSearch: the match resolver *)

\* the three finds over basinSearchIndex joined by ??: Null when none hits
ResolveBasinPrefixFirst(index, keyword) ==
    LET prefix == FirstTrue([i \in 1..Len(index) |->
                      StartsWith(index[i].normalizedName, keyword)])
        inside == FirstTrue([i \in 1..Len(index) |->
                      Includes(index[i].normalizedName, keyword)])
    IN  IF prefix # 0 THEN index[prefix].name
        ELSE IF inside # 0 THEN index[inside].name
        ELSE Null

ResolveBasin(index, keyword) ==
    LET exact == FirstTrue([i \in 1..Len(index) |-> index[i].normalizedName = keyword])
        prefix == FirstTrue([i \in 1..Len(index) |->
                      StartsWith(index[i].normalizedName, keyword)])
        inside == FirstTrue([i \in 1..Len(index) |->
                      Includes(index[i].normalizedName, keyword)])
    IN  IF exact # 0 THEN index[exact].name
        ELSE IF prefix # 0 THEN index[prefix].name
        ELSE IF inside # 0 THEN index[inside].name
        ELSE Null

NameHit(names, keyword) ==
    \E j \in 1..Len(names) : names[j] = keyword \/ Includes(names[j], keyword)

\* a staged variant: an equality pass over all stations, then a containment pass
ResolveStationStaged(index, keyword) ==
    LET exact == FirstTrue([i \in 1..Len(index) |->
                     \E j \in 1..Len(index[i].names) : index[i].names[j] = keyword])
        hit == FirstTrue([i \in 1..Len(index) |-> NameHit(index[i].names, keyword)])
    IN  IF exact # 0 THEN <<index[exact].station>>
        ELSE IF hit # 0 THEN <<index[hit].station>>
        ELSE <<>>

\* stationSearchIndex.find(names.some(equal or includes))?.station
ResolveStation(index, keyword) ==
    LET hit == FirstTrue([i \in 1..Len(index) |-> NameHit(index[i].names, keyword)])
    IN  IF hit = 0 THEN <<>> ELSE <<index[hit].station>>

\* a resolver that tries the stations before the basins
SearchTargetStationFirst(bIndex, sIndex, keyword) ==
    LET basin == ResolveBasin(bIndex, keyword)
        stationMatch == ResolveStation(sIndex, keyword)
    IN  IF stationMatch # <<>>
        THEN [kind |-> "station", basin |-> Null, station |-> stationMatch]
        ELSE IF Truthy(basin)
        THEN [kind |-> "basin", basin |-> basin, station |-> <<>>]
        ELSE [kind |-> "none", basin |-> Null, station |-> <<>>]

\* what performSearch goes for once the keyword is normalized: the basin if one
\* resolves, else the station if one resolves, else nothing
SearchTarget(bIndex, sIndex, keyword) ==
    LET basin == ResolveBasin(bIndex, keyword)
        stationMatch == ResolveStation(sIndex, keyword)
    IN  IF Truthy(basin)
        THEN [kind |-> "basin", basin |-> basin, station |-> <<>>]
        ELSE IF stationMatch # <<>>
        THEN [kind |-> "station", basin |-> Null, station |-> stationMatch]
        ELSE [kind |-> "none", basin |-> Null, station |-> <<>>]

-----------------------------------------------------------------------------
(* The event store behind /api/.../events *)

\* a peak time 'YYYY-MM-DD hh:mm:ss' is <<date, clock>>; a null time is <<>>
Event(id, date, clock, value) ==
    [id |-> id, peak_time |-> <<date, clock>>, peak_value |-> value]

\* the flood events recorded for a station
EventsOfStation(id) ==
    CASE id = <<"3">> -> <<Event(1, 2, 1, 3), Event(2, 3, 0, 7)>>
      [] id = <<"4">> -> <<Event(3, 3, 1, 7)>>
      [] id = <<"5">> -> <<Event(4, 2, 0, 1)>>
      [] OTHER -> <<>>

RECURSIVE EventsOfStations(_)
EventsOfStations(sts) ==
    IF sts = <<>> THEN <<>>
    ELSE EventsOfStation(Head(sts).station_id) \o EventsOfStations(Tail(sts))

\* encodeURIComponent: a space becomes %20, the letters stay
RECURSIVE encodeURIComponent(_)
encodeURIComponent(s) ==
    IF s = <<>> THEN <<>>
    ELSE (IF Head(s) = " " THEN <<"%", "2", "0">> ELSE <<Head(s)>>)
         \o encodeURIComponent(Tail(s))

TimeLeq(a, b) == a[1] < b[1] \/ (a[1] = b[1] /\ a[2] <= b[2])

\* the events a request url selects: all of the station's or basin's, or those
\* whose peak date lies in [peakStart, peakEnd]
ServerMatched(url) ==
    LET InRange(e) == ~url.ranged
                      \/ (url.peakStart <= e.peak_time[1] /\ e.peak_time[1] <= url.peakEnd)
        OfBasin(g) == encodeURIComponent(g.name) = url.path.id
        groups == SelectSeq(basinGroups, OfBasin)
        all == IF url.path.kind = "stations" THEN EventsOfStation(url.path.id)
               ELSE IF groups = <<>> THEN <<>>
               ELSE EventsOfStations(groups[1].members)
    IN  SelectSeq(all, InRange)

\* the response body: { summary, matchedSeries? }
ServerResponse(url) ==
    LET matched == ServerMatched(url)
        times == { matched[i].peak_time : i \in 1..Len(matched) }
    IN  [summary |->
            [matchedEvents |-> Len(matched),
             minPeakTime |-> IF times = {} THEN <<>>
                             ELSE CHOOSE t \in times : \A u \in times : TimeLeq(t, u),
             maxPeakTime |-> IF times = {} THEN <<>>
                             ELSE CHOOSE t \in times : \A u \in times : TimeLeq(u, t)],
         matchedSeries |-> IF url.includeMatchedSeries THEN <<matched>> ELSE <<>>]

-----------------------------------------------------------------------------
(* useStationEvents: the values derived on every render *)

chartPresets == <<"timeline_all", "seasonal_frequency", "peak_distribution">>

\* toDateOnly: the first ten characters; null (here 0, falsy like '') for a null time
toDateOnly(value) == IF value = <<>> THEN 0 ELSE value[1]

StationKey(station) == <<"s", ":">> \o station.station_id
BasinKey(name) == <<"b", ":">> \o name

currentStation == IF activeTab = "station" THEN stationTab ELSE <<>>

currentBasin ==
    IF activeTab = "basin" /\ basinTab # <<>> THEN basinTab[1].basinName ELSE Null

currentBasinCount ==
    IF activeTab = "basin" /\ basinTab # <<>> THEN basinTab[1].stationCount ELSE 0

\* a key taken from the station tab whenever one is open, active or not
activeTabKeyOfOpenStation ==
    IF stationTab # <<>> THEN StationKey(stationTab[1])
    ELSE IF Truthy(currentBasin) THEN BasinKey(currentBasin)
    ELSE Null

activeTabKey ==
    IF currentStation # <<>> THEN StationKey(currentStation[1])
    ELSE IF Truthy(currentBasin) THEN BasinKey(currentBasin)
    ELSE Null

peakStartDate ==
    IF activeTabKey # Null /\ activeTabKey \in DOMAIN peakDateRangeByTab
    THEN peakDateRangeByTab[activeTabKey].start ELSE 0

peakEndDate ==
    IF activeTabKey # Null /\ activeTabKey \in DOMAIN peakDateRangeByTab
    THEN peakDateRangeByTab[activeTabKey].end ELSE 0

selectedPreset ==
    IF activeTabKey # Null /\ activeTabKey \in DOMAIN selectedPresetByTab
    THEN selectedPresetByTab[activeTabKey] ELSE "null"

eventsBasePath ==
    IF currentStation # <<>>
    THEN <<[kind |-> "stations", id |-> currentStation[1].station_id]>>
    ELSE IF Truthy(currentBasin)
    THEN <<[kind |-> "basins", id |-> encodeURIComponent(currentBasin)]>>
    ELSE <<>>

summaryRequestUrl ==
    IF eventsBasePath = <<>> THEN <<>>
    ELSE <<[path |-> eventsBasePath[1], ranged |-> FALSE, peakStart |-> 0,
            peakEnd |-> 0, includeMatchedSeries |-> FALSE]>>

\* what useSWR(key) returns for a key: the cache entry of that key
SwrData(key) ==
    IF key # <<>> /\ key[1] \in DOMAIN swrCache THEN swrCache[key[1]].data ELSE <<>>

SwrError(key) == key # <<>> /\ key[1] \in DOMAIN swrCache /\ swrCache[key[1]].error

SwrLoading(key) == key # <<>> /\ key[1] \in DOMAIN swrCache /\ swrCache[key[1]].isLoading

summaryData == SwrData(summaryRequestUrl)
summaryError == SwrError(summaryRequestUrl)

minPeakDate ==
    toDateOnly(IF summaryData = <<>> THEN <<>> ELSE summaryData[1].summary.minPeakTime)

maxPeakDate ==
    toDateOnly(IF summaryData = <<>> THEN <<>> ELSE summaryData[1].summary.maxPeakTime)

\* an effective start that is only what is stored, with no default
rangeStartDateStoredOnly == peakStartDate

rangeStartDate == IF peakStartDate # 0 THEN peakStartDate ELSE minPeakDate
rangeEndDate == IF peakEndDate # 0 THEN peakEndDate ELSE maxPeakDate

\* a date filter that counts as changed as soon as either date is overridden
hasDateFilterChangedOnOverride == peakStartDate # 0 \/ peakEndDate # 0

hasDateFilterChanged ==
    \/ (minPeakDate # 0 /\ rangeStartDate # 0 /\ rangeStartDate # minPeakDate)
    \/ (maxPeakDate # 0 /\ rangeEndDate # 0 /\ rangeEndDate # maxPeakDate)

shouldFetchRangeData == selectedPreset # "null" \/ hasDateFilterChanged

\* a range url that asks for the series whether or not a preset is selected
rangeRequestUrlWithSeries ==
    IF eventsBasePath = <<>> \/ rangeStartDate = 0 \/ rangeEndDate = 0
       \/ ~shouldFetchRangeData
    THEN <<>>
    ELSE <<[path |-> eventsBasePath[1], ranged |-> TRUE, peakStart |-> rangeStartDate,
            peakEnd |-> rangeEndDate, includeMatchedSeries |-> TRUE]>>

rangeRequestUrl ==
    IF eventsBasePath = <<>> \/ rangeStartDate = 0 \/ rangeEndDate = 0
       \/ ~shouldFetchRangeData
    THEN <<>>
    ELSE <<[path |-> eventsBasePath[1], ranged |-> TRUE, peakStart |-> rangeStartDate,
            peakEnd |-> rangeEndDate, includeMatchedSeries |-> selectedPreset # "null"]>>

rangeData == SwrData(rangeRequestUrl)
rangeError == SwrError(rangeRequestUrl)
isLoadingRangeCount == SwrLoading(rangeRequestUrl)

\* rangeData?.summary ?? summaryData?.summary ?? null
eventSummary ==
    IF rangeData # <<>> THEN <<rangeData[1].summary>>
    ELSE IF summaryData # <<>> THEN <<summaryData[1].summary>>
    ELSE <<>>

totalEvents == IF summaryData = <<>> THEN <<>> ELSE <<summaryData[1].summary.matchedEvents>>

rangeMatchedEvents ==
    IF rangeData # <<>> THEN <<rangeData[1].summary.matchedEvents>> ELSE totalEvents

\* rangeData?.matchedSeries ?? []
matchedSeries ==
    IF rangeData # <<>> /\ rangeData[1].matchedSeries # <<>>
    THEN rangeData[1].matchedSeries[1] ELSE <<>>

-----------------------------------------------------------------------------
(* useStationEvents: the chart derivations *)

\* the number that is not finite
NaN == -1

NumberIsFinite(x) == x # NaN

\* Date.parse: the timestamp of a peak time <<date, clock>> (two ticks to a date),
\* NaN for anything else
DateParse(peak_time) ==
    IF Len(peak_time) = 2 /\ peak_time[1] \in Nat /\ peak_time[2] \in {0, 1}
    THEN peak_time[1] * 2 + peak_time[2]
    ELSE NaN

\* new Date(timestamp).getMonth(): 0..11; a date of the model is one month of the
\* calendar, date 1 is a January
getMonth(timestamp) == ((timestamp \div 2) - 1) % 12

\* Array.from({ length: 12 }, ...) : months 1..12, all counts 0
EmptyMonthCounts == [monthIndex \in 1..12 |-> [month |-> monthIndex, count |-> 0]]

\* the for loop of monthlyFrequency
RECURSIVE CountMonths(_, _)
CountMonths(monthCounts, series) ==
    IF series = <<>> THEN monthCounts
    ELSE LET timestamp == DateParse(Head(series).peak_time)
         IN  IF ~NumberIsFinite(timestamp) THEN CountMonths(monthCounts, Tail(series))
             ELSE CountMonths([monthCounts EXCEPT ![getMonth(timestamp) + 1].count = @ + 1],
                              Tail(series))

\* a loop that stops at the first point whose peak time does not parse
RECURSIVE CountMonthsUntilBad(_, _)
CountMonthsUntilBad(monthCounts, series) ==
    IF series = <<>> THEN monthCounts
    ELSE LET timestamp == DateParse(Head(series).peak_time)
         IN  IF ~NumberIsFinite(timestamp) THEN monthCounts
             ELSE CountMonthsUntilBad(
                      [monthCounts EXCEPT ![getMonth(timestamp) + 1].count = @ + 1],
                      Tail(series))

MonthlyFrequencyUntilBad(series) == CountMonthsUntilBad(EmptyMonthCounts, series)

MonthlyFrequency(series) == CountMonths(EmptyMonthCounts, series)

\* Array.prototype.sort with (a, b) => b.peak_value - a.peak_value: stable, so an
\* item goes behind every item that does not sort after it
RECURSIVE InsertDescending(_, _)
InsertDescending(sorted, item) ==
    IF sorted = <<>> THEN <<item>>
    ELSE IF Head(sorted).peak_value >= item.peak_value
    THEN <<Head(sorted)>> \o InsertDescending(Tail(sorted), item)
    ELSE <<item>> \o sorted

RECURSIVE SortDescending(_)
SortDescending(items) ==
    IF items = <<>> THEN <<>>
    ELSE InsertDescending(SortDescending(SubSeq(items, 1, Len(items) - 1)),
                          items[Len(items)])

\* a sort that puts an item in front of the items of equal value
RECURSIVE InsertBeforeEqual(_, _)
InsertBeforeEqual(sorted, item) ==
    IF sorted = <<>> THEN <<item>>
    ELSE IF Head(sorted).peak_value > item.peak_value
    THEN <<Head(sorted)>> \o InsertBeforeEqual(Tail(sorted), item)
    ELSE <<item>> \o sorted

RECURSIVE SortUnstable(_)
SortUnstable(items) ==
    IF items = <<>> THEN <<>>
    ELSE InsertBeforeEqual(SortUnstable(SubSeq(items, 1, Len(items) - 1)),
                           items[Len(items)])

PeakSortedUnstable(series) ==
    LET Finite(item) == NumberIsFinite(item.peak_value)
    IN  SortUnstable(SelectSeq(series, Finite))

\* series.filter(finite peak_value).sort(descending)
PeakSorted(series) ==
    LET Finite(item) == NumberIsFinite(item.peak_value)
    IN  SortDescending(SelectSeq(series, Finite))

\* .map((item, index) => ({ rank: index + 1, peak_value }))
PeakDistribution(series) ==
    LET sorted == PeakSorted(series)
    IN  [index \in 1..Len(sorted) |->
            [rank |-> index, peak_value |-> sorted[index].peak_value]]

monthlyFrequency == MonthlyFrequency(matchedSeries)
peakDistribution == PeakDistribution(matchedSeries)

isOpen ==
    \/ (activeTab = "station" /\ stationTab # <<>>)
    \/ (activeTab = "basin" /\ basinTab # <<>>)

-----------------------------------------------------------------------------
(* The last handler that ran *)

Tabs ==
    [basinTab |-> basinTab, stationTab |-> stationTab, activeTab |-> activeTab,
     previewStationId |-> previewStationId,
     presetKeys |-> DOMAIN selectedPresetByTab, rangeKeys |-> DOMAIN peakDateRangeByTab]

Op(name, arg, result) == [name |-> name, arg |-> arg, result |-> result, pre |-> Tabs]

-----------------------------------------------------------------------------
(* useMapState *)

\* a clearPreview that leaves the popup's preview in place
clearPreviewKept == UNCHANGED previewStationId

clearPreview == previewStationId' = Null

\* a commit that opens the station tab without making it the active one
commitStationSelectionNoActivate(station) ==
    /\ selectedStationId' = station.station_id
    /\ stationTab' = <<station>>
    /\ previewStationId' = Null
    /\ UNCHANGED <<basinTab, activeTab>>

\* a commit that keeps the popup's preview
commitStationSelectionKeepPreview(station) ==
    /\ selectedStationId' = station.station_id
    /\ stationTab' = <<station>>
    /\ activeTab' = "station"
    /\ UNCHANGED <<basinTab, previewStationId>>

commitStationSelection(station) ==
    /\ selectedStationId' = station.station_id
    /\ stationTab' = <<station>>
    /\ previewStationId' = Null
    /\ activeTab' = "station"
    /\ UNCHANGED basinTab

handleActivateStationTab ==
    IF stationTab = <<>> THEN UNCHANGED mapVars
    ELSE /\ activeTab' = "station"
         /\ selectedStationId' = stationTab[1].station_id
         /\ UNCHANGED <<basinTab, stationTab, previewStationId>>

\* a close that always falls back to no tab
handleCloseStationTabToNone ==
    /\ stationTab' = <<>>
    /\ selectedStationId' = Null
    /\ previewStationId' = Null
    /\ activeTab' = "none"
    /\ UNCHANGED basinTab

handleCloseStationTab ==
    /\ stationTab' = <<>>
    /\ selectedStationId' = Null
    /\ previewStationId' = Null
    /\ activeTab' = IF basinTab # <<>> THEN "basin" ELSE "none"
    /\ UNCHANGED basinTab

\* a close that always falls back to no tab
handleCloseBasinTabToNone ==
    /\ basinTab' = <<>>
    /\ previewStationId' = Null
    /\ activeTab' = "none"
    /\ selectedStationId' = Null
    /\ UNCHANGED stationTab

handleCloseBasinTab ==
    /\ basinTab' = <<>>
    /\ previewStationId' = Null
    /\ UNCHANGED stationTab
    /\ IF activeTab = "basin"
       THEN IF stationTab # <<>>
            THEN activeTab' = "station" /\ selectedStationId' = stationTab[1].station_id
            ELSE activeTab' = "none" /\ selectedStationId' = Null
       ELSE UNCHANGED <<activeTab, selectedStationId>>

-----------------------------------------------------------------------------
(* LeafletMap: the basin tab handlers *)

\* an open that counts the stations whose untrimmed basin_name is the name
handleOpenBasinTabRawCount(basinName) ==
    LET trimmed == Trim(basinName)
        IsOf(station) == station.basin_name = trimmed
    IN  IF trimmed = <<>> THEN UNCHANGED mapVars
        ELSE /\ basinTab' = <<[basinName |-> trimmed,
                               stationCount |-> Len(SelectSeq(stations, IsOf))]>>
             /\ activeTab' = "basin"
             /\ clearPreview
             /\ UNCHANGED <<stationTab, selectedStationId>>

handleOpenBasinTab(basinName) ==
    LET trimmed == Trim(basinName)
        matched == GroupMembers(basinGroups, trimmed)
    IN  IF trimmed = <<>> THEN UNCHANGED mapVars
        ELSE /\ basinTab' = <<[basinName |-> trimmed, stationCount |-> Len(matched)]>>
             /\ activeTab' = "basin"
             /\ clearPreview
             /\ UNCHANGED <<stationTab, selectedStationId>>

handleActivateBasinTab ==
    IF basinTab = <<>> THEN UNCHANGED mapVars
    ELSE activeTab' = "basin"
         /\ UNCHANGED <<basinTab, stationTab, selectedStationId, previewStationId>>

-----------------------------------------------------------------------------
(* useStationSearch *)

\* the empty-keyword hint worded as the no-match hint
HintEnterNameAsNoMatch == "No results matched. Try a more complete name."

HintEnterName == "Please enter a basin / station name."
HintMapNotReady == "Map is not ready yet. Please try again shortly."
noMatchHint == "No results matched. Try a more complete name."

\* performSearch(rawKeyword), returning result
performSearch(rawKeyword, result) ==
    LET keyword == Trim(rawKeyword)
        target == SearchTarget(basinSearchIndex, stationSearchIndex,
                               normalizeText(keyword))
        matched == GroupMembers(basinGroups, target.basin)
        stationMatch == target.station[1]
    IN  IF keyword = <<>>
        THEN /\ selectedSearchItem' = <<>>
             /\ clearPreview
             /\ searchHint' = HintEnterName
             /\ result = FALSE
             /\ UNCHANGED <<basinTab, stationTab, activeTab, selectedStationId>>
        ELSE IF ~mapInstance
        THEN /\ selectedSearchItem' = <<>>
             /\ clearPreview
             /\ searchHint' = HintMapNotReady
             /\ result = FALSE
             /\ UNCHANGED <<basinTab, stationTab, activeTab, selectedStationId>>
        ELSE IF target.kind = "basin"
        THEN /\ searchHint' = ""
             /\ clearPreview
             /\ selectedSearchItem' = <<[label |-> target.basin, type |-> "Basin"]>>
             /\ basinTab' = <<[basinName |-> target.basin, stationCount |-> Len(matched)]>>
             /\ activeTab' = "basin"
             /\ result = TRUE
             /\ UNCHANGED <<stationTab, selectedStationId>>
        ELSE IF target.kind = "station"
        THEN /\ searchHint' = ""
             /\ selectedSearchItem' =
                    <<[label |-> IF Truthy(stationMatch.station_name)
                                 THEN stationMatch.station_name
                                 ELSE stationDisplayName(stationMatch),
                       type |-> "Station"]>>
             /\ commitStationSelection(stationMatch)
             /\ result = TRUE
        ELSE /\ selectedSearchItem' = <<>>
             /\ clearPreview
             /\ searchHint' = noMatchHint
             /\ result = FALSE
             /\ UNCHANGED <<basinTab, stationTab, activeTab, selectedStationId>>

handleSearchSubmit ==
    \E result \in BOOLEAN :
        /\ performSearch(searchText, result)
        /\ op' = Op("handleSearchSubmit", searchText, result)
        /\ UNCHANGED <<stations, mapInstance, searchText, panelVars, swrCache>>

handleSearchTextChange(value) ==
    /\ searchText' = value
    /\ selectedSearchItem' = <<>>
    /\ searchHint' = ""
    /\ op' = Op("handleSearchTextChange", value, TRUE)
    /\ UNCHANGED <<stations, mapInstance, mapVars, panelVars, swrCache>>

-----------------------------------------------------------------------------
(* useStationSearch: the suggestions *)

\* the most suggestions of one type: slice(0, 8)
SuggestionCap == 8

\* String.prototype.localeCompare on the letters of the model: first by the
\* letters without their case, a space before every letter, then lower case
\* before upper case
PrimaryKey(s) ==
    [i \in 1..Len(s) |->
        CASE Fold(s[i]) = " " -> 0 [] Fold(s[i]) = "a" -> 1 [] Fold(s[i]) = "b" -> 2
          [] Fold(s[i]) = "c" -> 3 [] OTHER -> 4]

CaseKey(s) == [i \in 1..Len(s) |-> IF Fold(s[i]) = s[i] THEN 0 ELSE 1]

RECURSIVE CompareKeys(_, _)
CompareKeys(x, y) ==
    IF x = <<>> THEN (IF y = <<>> THEN 0 ELSE -1)
    ELSE IF y = <<>> THEN 1
    ELSE IF Head(x) < Head(y) THEN -1
    ELSE IF Head(x) > Head(y) THEN 1
    ELSE CompareKeys(Tail(x), Tail(y))

localeCompare(a, b) ==
    IF CompareKeys(PrimaryKey(a), PrimaryKey(b)) # 0
    THEN CompareKeys(PrimaryKey(a), PrimaryKey(b))
    ELSE CompareKeys(CaseKey(a), CaseKey(b))

\* .sort((a, b) => a.localeCompare(b)): stable
RECURSIVE InsertAscending(_, _)
InsertAscending(sorted, name) ==
    IF sorted = <<>> THEN <<name>>
    ELSE IF localeCompare(Head(sorted), name) <= 0
    THEN <<Head(sorted)>> \o InsertAscending(Tail(sorted), name)
    ELSE <<name>> \o sorted

RECURSIVE SortAscending(_)
SortAscending(names) ==
    IF names = <<>> THEN <<>>
    ELSE InsertAscending(SortAscending(SubSeq(names, 1, Len(names) - 1)),
                         names[Len(names)])

\* .slice(0, n)
Slice(s, n) == SubSeq(s, 1, IF Len(s) < n THEN Len(s) ELSE n)

\* the names a Set holds, in the order of their first add
RECURSIVE AddAll(_, _)
AddAll(unique, names) ==
    IF names = <<>> THEN unique
    ELSE AddAll(IF \E i \in 1..Len(unique) : unique[i] = Head(names)
                THEN unique ELSE Append(unique, Head(names)),
                Tail(names))

\* basin suggestions cut to the cap before they are sorted
basinSuggestionsSliceFirst ==
    LET keyword == normalizeText(searchText)
        Matches(entry) == StartsWith(entry.normalizedName, keyword)
        matched == SelectSeq(basinSearchIndex, Matches)
    IN  IF keyword = <<>> THEN <<>>
        ELSE SortAscending(Slice([i \in 1..Len(matched) |-> matched[i].name],
                                 SuggestionCap))

basinSuggestions ==
    LET keyword == normalizeText(searchText)
        Matches(entry) == StartsWith(entry.normalizedName, keyword)
        matched == SelectSeq(basinSearchIndex, Matches)
    IN  IF keyword = <<>> THEN <<>>
        ELSE Slice(SortAscending([i \in 1..Len(matched) |-> matched[i].name]),
                   SuggestionCap)

\* station suggestions that also look at station_name2 and station_name3
stationNameSuggestionsAnyName ==
    LET keyword == normalizeText(searchText)
        Named(name) == Truthy(name) /\ StartsWith(normalizeText(name), keyword)
        names == [i \in 1..3 * Len(stations) |->
                    LET station == stations[((i - 1) \div 3) + 1]
                    IN  OptTrim(CASE i % 3 = 1 -> station.station_name
                                  [] i % 3 = 2 -> station.station_name2
                                  [] OTHER -> station.station_name3)]
    IN  IF keyword = <<>> THEN <<>>
        ELSE Slice(SortAscending(AddAll(<<>>, SelectSeq(names, Named))), SuggestionCap)

stationNameSuggestions ==
    LET keyword == normalizeText(searchText)
        Named(name) == Truthy(name) /\ StartsWith(normalizeText(name), keyword)
        names == [i \in 1..Len(stations) |-> OptTrim(stations[i].station_name)]
    IN  IF keyword = <<>> THEN <<>>
        ELSE Slice(SortAscending(AddAll(<<>>, SelectSeq(names, Named))), SuggestionCap)

searchSuggestions ==
    [i \in 1..Len(basinSuggestions) |-> [value |-> basinSuggestions[i], type |-> "Basin"]]
    \o [i \in 1..Len(stationNameSuggestions) |->
           [value |-> stationNameSuggestions[i], type |-> "Station"]]

\* the hint under the search box
searchHintText ==
    IF searchHint # "" /\ searchHint # noMatchHint THEN searchHint
    ELSE IF Trim(searchText) = <<>> THEN ""
    ELSE IF Len(searchSuggestions) > 0 THEN ""
    ELSE noMatchHint

\* a click on a suggestion of the list
handleSuggestionSelect(item) ==
    \E result \in BOOLEAN :
        /\ searchText' = item.value
        /\ performSearch(item.value, result)
        /\ op' = Op("handleSuggestionSelect", item, result)
        /\ UNCHANGED <<stations, mapInstance, panelVars, swrCache>>

-----------------------------------------------------------------------------
(* useStationEvents: the per-tab maps *)

\* { ...map, [key]: value }
MapSet(map, key, value) ==
    [k \in DOMAIN map \cup {key} |-> IF k = key THEN value ELSE map[k]]

\* delete next[key]
MapDelete(map, key) == [k \in DOMAIN map \ {key} |-> map[k]]

\* a clear that leaves the entry in place
clearTabEntryKept(map, tabKey) == map

\* clearTabPreset / clearTabDateRange: the map without tabKey's entry
clearTabEntry(map, tabKey) ==
    IF tabKey = Null THEN map
    ELSE IF tabKey \notin DOMAIN map THEN map
    ELSE MapDelete(map, tabKey)

\* prev[activeTabKey] ?? { start: '', end: '' }
CurrentRangeEntry ==
    IF activeTabKey \in DOMAIN peakDateRangeByTab
    THEN peakDateRangeByTab[activeTabKey] ELSE [start |-> 0, end |-> 0]

setStartDate(next) ==
    IF activeTabKey = Null THEN UNCHANGED peakDateRangeByTab
    ELSE LET current == CurrentRangeEntry
             nextEnd == IF rangeEndDate # 0 /\ next > rangeEndDate THEN next
                        ELSE current.end
         IN  peakDateRangeByTab' =
                 MapSet(peakDateRangeByTab, activeTabKey, [start |-> next, end |-> nextEnd])

setEndDate(next) ==
    IF activeTabKey = Null THEN UNCHANGED peakDateRangeByTab
    ELSE LET current == CurrentRangeEntry
             nextStart == IF rangeStartDate # 0 /\ next < rangeStartDate THEN next
                          ELSE current.start
         IN  peakDateRangeByTab' =
                 MapSet(peakDateRangeByTab, activeTabKey, [start |-> nextStart, end |-> next])

-----------------------------------------------------------------------------
(* StationSidePanel: what the user can click *)

\* the close button of the station tab
CloseStationTabClick ==
    /\ isOpen /\ stationTab # <<>>
    /\ selectedPresetByTab' = clearTabEntry(selectedPresetByTab, StationKey(stationTab[1]))
    /\ peakDateRangeByTab' = clearTabEntry(peakDateRangeByTab, StationKey(stationTab[1]))
    /\ handleCloseStationTab
    /\ op' = Op("CloseStationTab", StationKey(stationTab[1]), TRUE)
    /\ UNCHANGED <<stations, mapInstance, searchVars, swrCache>>

\* the close button of the basin tab
CloseBasinTabClick ==
    /\ isOpen /\ basinTab # <<>>
    /\ selectedPresetByTab' =
           clearTabEntry(selectedPresetByTab, BasinKey(basinTab[1].basinName))
    /\ peakDateRangeByTab' =
           clearTabEntry(peakDateRangeByTab, BasinKey(basinTab[1].basinName))
    /\ handleCloseBasinTab
    /\ op' = Op("CloseBasinTab", BasinKey(basinTab[1].basinName), TRUE)
    /\ UNCHANGED <<stations, mapInstance, searchVars, swrCache>>

ActivateStationTabClick ==
    /\ isOpen /\ stationTab # <<>>
    /\ handleActivateStationTab
    /\ op' = Op("ActivateStationTab", <<>>, TRUE)
    /\ UNCHANGED <<stations, mapInstance, searchVars, panelVars, swrCache>>

ActivateBasinTabClick ==
    /\ isOpen /\ basinTab # <<>>
    /\ handleActivateBasinTab
    /\ op' = Op("ActivateBasinTab", <<>>, TRUE)
    /\ UNCHANGED <<stations, mapInstance, searchVars, panelVars, swrCache>>

\* the inline basin link of the station shown, rendered when basin_name is truthy
OpenBasinLinkClick ==
    /\ isOpen /\ currentStation # <<>>
    /\ Truthy(currentStation[1].basin_name)
    /\ handleOpenBasinTab(currentStation[1].basin_name)
    /\ op' = Op("OpenBasinLink", currentStation[1].basin_name, TRUE)
    /\ UNCHANGED <<stations, mapInstance, searchVars, panelVars, swrCache>>

\* a preset button that sets one preset for every tab that has an entry
PresetClickEveryTab(preset) ==
    /\ isOpen /\ eventSummary # <<>>
    /\ IF activeTabKey = Null THEN UNCHANGED selectedPresetByTab
       ELSE selectedPresetByTab' =
                [k \in DOMAIN selectedPresetByTab \cup {activeTabKey} |->
                    IF selectedPreset = preset THEN "null" ELSE preset]
    /\ op' = Op("PresetClick", preset, TRUE)
    /\ UNCHANGED <<stations, mapInstance, mapVars, searchVars, peakDateRangeByTab, swrCache>>

\* a preset button, rendered once an event summary is there
PresetClick(preset) ==
    /\ isOpen /\ eventSummary # <<>>
    /\ IF activeTabKey = Null THEN UNCHANGED selectedPresetByTab
       ELSE selectedPresetByTab' =
                MapSet(selectedPresetByTab, activeTabKey,
                       IF selectedPreset = preset THEN "null" ELSE preset)
    /\ op' = Op("PresetClick", preset, TRUE)
    /\ UNCHANGED <<stations, mapInstance, mapVars, searchVars, peakDateRangeByTab, swrCache>>

DateInputsShown == isOpen /\ eventSummary # <<>> /\ minPeakDate # 0 /\ maxPeakDate # 0

\* the start date input: next is the date typed, or '' when it is cleared
StartDateChange(next) ==
    /\ DateInputsShown
    /\ setStartDate(next)
    /\ op' = Op("setStartDate", next, TRUE)
    /\ UNCHANGED <<stations, mapInstance, mapVars, searchVars, selectedPresetByTab, swrCache>>

EndDateChange(next) ==
    /\ DateInputsShown
    /\ setEndDate(next)
    /\ op' = Op("setEndDate", next, TRUE)
    /\ UNCHANGED <<stations, mapInstance, mapVars, searchVars, selectedPresetByTab, swrCache>>

-----------------------------------------------------------------------------
(* StationMarkers and the map *)

\* popupopen / popupclose of a marker
\* a popup that makes the station tab the active one when it opens
PreviewChangeActivates(stationId) ==
    /\ previewStationId' = stationId
    /\ activeTab' = IF stationId # Null /\ stationTab # <<>> THEN "station" ELSE activeTab
    /\ op' = Op("handlePreviewChange", stationId, TRUE)
    /\ UNCHANGED <<stations, mapInstance, basinTab, stationTab,
                   selectedStationId, searchVars, panelVars, swrCache>>

PreviewChange(stationId) ==
    /\ previewStationId' = stationId
    /\ op' = Op("handlePreviewChange", stationId, TRUE)
    /\ UNCHANGED <<stations, mapInstance, basinTab, stationTab, activeTab,
                   selectedStationId, searchVars, panelVars, swrCache>>

\* "View Details" in the popup of a marker
MarkerCommit(station) ==
    /\ commitStationSelection(station)
    /\ op' = Op("commitStationSelection", station, TRUE)
    /\ UNCHANGED <<stations, mapInstance, searchVars, panelVars, swrCache>>

\* fetchAllStations resolved
StationsLoaded(list) ==
    /\ stations = <<>>
    /\ stations' = list
    /\ op' = Op("StationsLoaded", <<>>, TRUE)
    /\ UNCHANGED <<mapInstance, mapVars, searchVars, panelVars, swrCache>>

\* MapInstanceWatcher: onMapReady
MapReady ==
    /\ ~mapInstance
    /\ mapInstance' = TRUE
    /\ op' = Op("MapReady", <<>>, TRUE)
    /\ UNCHANGED <<stations, mapVars, searchVars, panelVars, swrCache>>

-----------------------------------------------------------------------------
(* SWR: useSWR(summaryRequestUrl) and useSWR(rangeRequestUrl)                *)
(* The cache holds one entry per request url; a hook shows the entry of the *)
(* url it is given on this render.  Responses arrive in any order.          *)

RangedRequests == { u \in DOMAIN swrCache : u.ranged }

\* useSWR asks for its current key when the cache holds no answer for it, or when
\* the last answer was an error (retry)
CanRequest(key) ==
    /\ key # <<>>
    /\ IF key[1] \in DOMAIN swrCache
       THEN swrCache[key[1]].error /\ ~swrCache[key[1]].isLoading
       ELSE TRUE

\* useSWR revalidates the answer it holds for its current key: after the key
\* changed back to it (revalidateIfStale) or on reconnect, unless a request of
\* that key is in flight or started within the deduping interval
CanRevalidate(key) ==
    /\ key # <<>>
    /\ IF key[1] \in DOMAIN swrCache
       THEN swrCache[key[1]].data # <<>> /\ ~swrCache[key[1]].isLoading
       ELSE FALSE

Requested(u) ==
    MapSet(swrCache, u,
           [data |-> SwrData(<<u>>), error |-> SwrError(<<u>>), isLoading |-> TRUE,
            request |-> IF u \in DOMAIN swrCache THEN swrCache[u].request ELSE <<>>])

SummaryFetchStart ==
    /\ CanRequest(summaryRequestUrl)
    /\ swrCache' = Requested(summaryRequestUrl[1])
    /\ op' = Op("SummaryFetchStart", summaryRequestUrl[1], TRUE)
    /\ UNCHANGED <<stations, mapInstance, mapVars, searchVars, panelVars>>

RangeFetchStart ==
    /\ CanRequest(rangeRequestUrl)
    /\ \/ rangeRequestUrl[1] \in DOMAIN swrCache
       \/ Cardinality(RangedRequests) < MaxRangeFetches
    /\ swrCache' = Requested(rangeRequestUrl[1])
    /\ op' = Op("RangeFetchStart", rangeRequestUrl[1], TRUE)
    /\ UNCHANGED <<stations, mapInstance, mapVars, searchVars, panelVars>>

SummaryRevalidate ==
    /\ CanRevalidate(summaryRequestUrl)
    /\ swrCache' = Requested(summaryRequestUrl[1])
    /\ op' = Op("SummaryRevalidate", summaryRequestUrl[1], TRUE)
    /\ UNCHANGED <<stations, mapInstance, mapVars, searchVars, panelVars>>

RangeRevalidate ==
    /\ CanRevalidate(rangeRequestUrl)
    /\ swrCache' = Requested(rangeRequestUrl[1])
    /\ op' = Op("RangeRevalidate", rangeRequestUrl[1], TRUE)
    /\ UNCHANGED <<stations, mapInstance, mapVars, searchVars, panelVars>>

\* an arrival stored under whatever range url is on show when it arrives
CacheSlotOnShow(u) == IF u.ranged /\ rangeRequestUrl # <<>> THEN rangeRequestUrl[1] ELSE u

\* the cache entry an arriving response of request u is stored under: its own key
CacheSlot(u) == u

Settled(u) == MapSet(swrCache, u, [swrCache[u] EXCEPT !.isLoading = FALSE])

\* the fetcher of request u resolved with a 2xx body
FetchResolve(u) ==
    /\ u \in DOMAIN swrCache /\ swrCache[u].isLoading
    /\ swrCache' = MapSet(Settled(u), CacheSlot(u),
                          [data |-> <<ServerResponse(u)>>, error |-> FALSE,
                           isLoading |-> FALSE, request |-> <<u>>])
    /\ op' = Op("FetchResolve", u, TRUE)
    /\ UNCHANGED <<stations, mapInstance, mapVars, searchVars, panelVars>>

\* a failure that empties the cache and keeps only the failed entry
FetchFailDropsCache(u) ==
    /\ u \in DOMAIN swrCache /\ swrCache[u].isLoading
    /\ swrCache' = MapSet(<<>>, u,
                          [data |-> <<>>, error |-> TRUE,
                           isLoading |-> FALSE, request |-> <<u>>])
    /\ op' = Op("FetchFail", u, FALSE)
    /\ UNCHANGED <<stations, mapInstance, mapVars, searchVars, panelVars>>

\* the fetcher of request u threw: a non-2xx status or a transport error
FetchFail(u) ==
    /\ u \in DOMAIN swrCache /\ swrCache[u].isLoading
    /\ swrCache' = MapSet(Settled(u), CacheSlot(u),
                          [data |-> SwrData(<<CacheSlot(u)>>), error |-> TRUE,
                           isLoading |-> FALSE, request |-> <<u>>])
    /\ op' = Op("FetchFail", u, FALSE)
    /\ UNCHANGED <<stations, mapInstance, mapVars, searchVars, panelVars>>

-----------------------------------------------------------------------------
(* Specifications *)

Init ==
    /\ stations = <<>>
    /\ mapInstance = FALSE
    /\ basinTab = <<>>
    /\ stationTab = <<>>
    /\ activeTab = "none"
    /\ selectedStationId = Null
    /\ previewStationId = Null
    /\ searchText = <<>>
    /\ searchHint = ""
    /\ selectedSearchItem = <<>>
    /\ peakDateRangeByTab = <<>>
    /\ selectedPresetByTab = <<>>
    /\ swrCache = <<>>
    /\ op = [name |-> "Init", arg |-> <<>>, result |-> TRUE,
             pre |-> [basinTab |-> <<>>, stationTab |-> <<>>, activeTab |-> "none",
                      previewStationId |-> Null, presetKeys |-> {}, rangeKeys |-> {}]]
    /\ closedKeys = {}
    /\ burst = [open |-> FALSE, requests |-> 0]

\* closedKeys after a step: a close button adds the key it cleared, and a key leaves
\* when its tab is open again
TrackClosed ==
    closedKeys' =
        (closedKeys \cup (IF op'.name \in {"CloseStationTab", "CloseBasinTab"}
                          THEN {op'.arg} ELSE {}))
        \ ( (IF stationTab' # <<>> THEN {StationKey(stationTab'[1])} ELSE {})
             \cup (IF basinTab' # <<>> THEN {BasinKey(basinTab'[1].basinName)} ELSE {}) )

\* burst after a step: a date edit opens the quiescence window, or keeps it open
\* when it arrives within the window of the edit before; requests counts the
\* requests for a range not asked for before that start while the window is open
\* (2 stands for two or more); arrivals and the summary request leave the burst as
\* it is; the window closes once the delay has passed with no edit (Quiesce),
\* and any other input ends the burst
TrackBurst ==
    burst' =
        IF op'.name \in {"setStartDate", "setEndDate"}
        THEN [open |-> TRUE, requests |-> IF burst.open THEN burst.requests ELSE 0]
        ELSE IF op'.name = "RangeFetchStart" /\ burst.open
        THEN [burst EXCEPT !.requests = IF @ < 2 THEN @ + 1 ELSE 2]
        ELSE IF op'.name \in {"RangeFetchStart", "RangeRevalidate", "SummaryFetchStart",
                              "FetchResolve", "FetchFail", "StationsLoaded"}
        THEN burst
        ELSE [open |-> FALSE, requests |-> 0]

\* the quiescence delay passes with no further date edit
Quiesce ==
    /\ burst.open
    /\ op' = Op("Quiesce", <<>>, TRUE)
    /\ UNCHANGED <<stations, mapInstance, mapVars, searchVars, panelVars, swrCache>>

StationIds == { stations[i].station_id : i \in 1..Len(stations) }

\* the user only searches: every data set, every keyword
SearchStep ==
    \/ \E list \in StationLists(MaxStations) \ {<<>>} : StationsLoaded(list)
    \/ MapReady
    \/ \E value \in Keywords : handleSearchTextChange(value)
    \/ handleSearchSubmit

NextSearch == SearchStep /\ TrackClosed /\ UNCHANGED burst

SpecSearch == Init /\ [][NextSearch]_vars

\* the tab machine: markers, popups, tab buttons, the inline basin link and the
\* search box, on the two-station data sets
TabStep ==
    \/ \E list \in PanelStationLists : StationsLoaded(list)
    \/ MapReady
    \/ \E value \in {<<"a", "b">>, <<"c">>, <<" ">>, <<"b", "b">>} :
           handleSearchTextChange(value)
    \/ handleSearchSubmit
    \/ \E id \in StationIds \cup {Null} : PreviewChange(id)
    \/ \E i \in 1..Len(stations) : MarkerCommit(stations[i])
    \/ ActivateStationTabClick
    \/ ActivateBasinTabClick
    \/ CloseStationTabClick
    \/ CloseBasinTabClick
    \/ OpenBasinLinkClick

Next == TabStep /\ TrackClosed /\ UNCHANGED burst

Spec == Init /\ [][Next]_vars

\* the side panel on one station and its basin: tabs opened from the marker and
\* the inline link, the tab buttons, presets, date inputs and the summary request
PanelStep ==
    \/ \E list \in SoloStationLists : StationsLoaded(list)
    \/ \E i \in 1..Len(stations) : MarkerCommit(stations[i])
    \/ ActivateStationTabClick
    \/ ActivateBasinTabClick
    \/ CloseStationTabClick
    \/ CloseBasinTabClick
    \/ OpenBasinLinkClick
    \/ \E i \in 1..Len(chartPresets) : PresetClick(chartPresets[i])
    \/ \E next \in 0..MaxDate : StartDateChange(next)
    \/ \E next \in 0..MaxDate : EndDateChange(next)
    \/ SummaryFetchStart
    \/ \E u \in DOMAIN swrCache : FetchResolve(u)

NextPanel == PanelStep /\ TrackClosed /\ UNCHANGED burst

SpecPanel == Init /\ [][NextPanel]_vars

\* the requests of the two useSWR hooks while the selection, the start date and the
\* preset move on: responses and failures arrive in any order
FetchStep ==
    \/ \E list \in SoloStationLists : StationsLoaded(list)
    \/ \E i \in 1..Len(stations) : MarkerCommit(stations[i])
    \/ ActivateStationTabClick
    \/ ActivateBasinTabClick
    \/ OpenBasinLinkClick
    \/ PresetClick(chartPresets[1])
    \/ \E next \in {0, MaxDate} : StartDateChange(next)
    \/ SummaryFetchStart
    \/ RangeFetchStart
    \/ \E u \in DOMAIN swrCache : FetchResolve(u)
    \/ \E u \in DOMAIN swrCache : FetchFail(u)

NextFetch == FetchStep /\ TrackClosed /\ UNCHANGED burst

SpecFetch == Init /\ [][NextFetch]_vars

\* the summary request of one station and its basin while the selection, the start
\* date and the preset move on, with the revalidations of useSWR
SummaryStep ==
    \/ \E list \in SoloStationLists : StationsLoaded(list)
    \/ \E i \in 1..Len(stations) : MarkerCommit(stations[i])
    \/ ActivateStationTabClick
    \/ ActivateBasinTabClick
    \/ CloseStationTabClick
    \/ CloseBasinTabClick
    \/ OpenBasinLinkClick
    \/ PresetClick(chartPresets[1])
    \/ \E next \in {0, MaxDate} : StartDateChange(next)
    \/ SummaryFetchStart
    \/ SummaryRevalidate
    \/ \E u \in DOMAIN swrCache : FetchResolve(u)
    \/ \E u \in DOMAIN swrCache : FetchFail(u)

NextSummary == SummaryStep /\ TrackClosed /\ UNCHANGED burst

SpecSummary == Init /\ [][NextSummary]_vars

\* the ranged request of one station while presets and dates change in bursts
RangeStep ==
    \/ \E list \in SoloStationLists : StationsLoaded(list)
    \/ \E i \in 1..Len(stations) : MarkerCommit(stations[i])
    \/ CloseStationTabClick
    \/ \E i \in 1..Len(chartPresets) : PresetClick(chartPresets[i])
    \/ \E next \in {0, MaxDate - 1, MaxDate} : StartDateChange(next)
    \/ \E next \in {0, MaxDate - 1, MaxDate} : EndDateChange(next)
    \/ Quiesce
    \/ SummaryFetchStart
    \/ RangeFetchStart
    \/ RangeRevalidate
    \/ \E u \in DOMAIN swrCache : FetchResolve(u)

NextRange == RangeStep /\ TrackClosed /\ TrackBurst

SpecRange == Init /\ [][NextRange]_vars

\* the station tab taken over by another station: two stations, commits from
\* their markers, the close button, a preset, a start date, the summary request
ReplaceStep ==
    \/ \E list \in PanelStationLists : StationsLoaded(list)
    \/ \E i \in 1..Len(stations) : MarkerCommit(stations[i])
    \/ CloseStationTabClick
    \/ PresetClick(chartPresets[1])
    \/ \E next \in {0, MaxDate} : StartDateChange(next)
    \/ SummaryFetchStart
    \/ \E u \in DOMAIN swrCache : FetchResolve(u)

NextReplace == ReplaceStep /\ TrackClosed /\ UNCHANGED burst

SpecReplace == Init /\ [][NextReplace]_vars

\* the search box with its suggestion list: typing, submitting, and clicking a
\* suggestion
SelectStep ==
    \/ \E list \in StationLists(MaxStations - 1) \ {<<>>} : StationsLoaded(list)
    \/ MapReady
    \/ \E value \in Keywords \cup {<<"a">>} : handleSearchTextChange(value)
    \/ handleSearchSubmit
    \/ \E i \in 1..Len(searchSuggestions) : handleSuggestionSelect(searchSuggestions[i])

NextSelect == SelectStep /\ TrackClosed /\ UNCHANGED burst

SpecSelect == Init /\ [][NextSelect]_vars

\* the points a series is made of: two in one January, one in December, one in
\* the January after, one whose peak time does not parse, one whose peak value
\* is not finite
SeriesPoints ==
    { Event(1, 1, 0, 3), Event(2, 1, 1, 7), Event(3, 12, 0, 7), Event(4, 13, 1, 1),
      [id |-> 5, peak_time |-> <<"?">>, peak_value |-> 1],
      Event(6, 2, 0, NaN) }

\* the series of at most MaxSeries different points, in any order
SeriesPool ==
    { series \in UNION { [1..n -> SeriesPoints] : n \in 0..MaxSeries } :
        \A i, j \in 1..Len(series) : i # j => series[i] # series[j] }

\* the two useMemo derivations run on a matched series
ChartsDerive(series) ==
    /\ op' = Op("ChartsDerive", series,
                [monthlyFrequency |-> MonthlyFrequency(series),
                 peakSorted |-> PeakSorted(series),
                 peakDistribution |-> PeakDistribution(series)])
    /\ UNCHANGED <<stations, mapInstance, mapVars, searchVars, panelVars, swrCache>>

NextCharts ==
    /\ \E series \in SeriesPool : ChartsDerive(series)
    /\ UNCHANGED <<closedKeys, burst>>

SpecCharts == Init /\ [][NextCharts]_vars

\* the suggestions shown while the user types, on every data set
SuggestStep ==
    \/ \E list \in SuggestStationLists : StationsLoaded(list)
    \/ \E value \in Keywords \cup {<<"a">>, <<"A", "c">>} : handleSearchTextChange(value)

NextSuggest == SuggestStep /\ UNCHANGED <<closedKeys, burst>>

SpecSuggest == Init /\ [][NextSuggest]_vars

-----------------------------------------------------------------------------
(* Properties of the match resolver, under SpecSearch *)

\* the last handler was a search that got past the empty-keyword and map checks
Searched ==
    /\ op.name = "handleSearchSubmit"
    /\ Trim(op.arg) # <<>>
    /\ mapInstance

SearchedKeyword == normalizeText(Trim(op.arg))

Least(S) == CHOOSE i \in S : \A j \in S : i <= j

BasinNames == { OptTrim(stations[i].basin_name) : i \in 1..Len(stations) } \ {Null, <<>>}

EqualBasins ==
    { i \in 1..Len(basinSearchIndex) : basinSearchIndex[i].normalizedName = SearchedKeyword }

PrefixBasins ==
    { i \in 1..Len(basinSearchIndex) :
        StartsWith(basinSearchIndex[i].normalizedName, SearchedKeyword) }

InsideBasins ==
    { i \in 1..Len(basinSearchIndex) :
        Includes(basinSearchIndex[i].normalizedName, SearchedKeyword) }

SomeBasinMatches == EqualBasins \cup PrefixBasins \cup InsideBasins # {}

\* the stations one of whose three names, normalized, equals or contains the keyword
HitStations ==
    { i \in 1..Len(stations) :
        \E name \in { normalizeText(stations[i].station_name),
                      normalizeText(stations[i].station_name2),
                      normalizeText(stations[i].station_name3) } :
            name # <<>> /\ (name = SearchedKeyword \/ Includes(name, SearchedKeyword)) }

EqualStations ==
    { i \in 1..Len(stations) :
        \E name \in { normalizeText(stations[i].station_name),
                      normalizeText(stations[i].station_name2),
                      normalizeText(stations[i].station_name3) } :
            name # <<>> /\ name = SearchedKeyword }

\* C1: a search whose keyword matches a basin (equal, prefix or substring) returns
\* true, opens a basin tab on a matching basin with activeTab = basin and leaves
\* the station tab as it was, whatever the station names are.
C1_BasinBeforeStation ==
    (Searched /\ SomeBasinMatches) =>
        /\ op.result = TRUE
        /\ activeTab = "basin"
        /\ basinTab # <<>>
        /\ Includes(normalizeText(basinTab[1].basinName), SearchedKeyword)
        /\ stationTab = op.pre.stationTab

\* a basin was opened although a station name equals the keyword
C1_Witness ==
    /\ Searched /\ SomeBasinMatches
    /\ EqualStations # {}
    /\ activeTab = "basin"

\* C2: the basin a search resolves is the first index entry equal to the keyword;
\* if none is equal, the first entry the keyword is a prefix of; if none, the first
\* entry that contains it.
C2_StagedBasinResolution ==
    (Searched /\ SomeBasinMatches) =>
        /\ basinTab # <<>>
        /\ basinTab[1].basinName =
               basinSearchIndex[IF EqualBasins # {} THEN Least(EqualBasins)
                                ELSE IF PrefixBasins # {} THEN Least(PrefixBasins)
                                ELSE Least(InsideBasins)].name

\* the exact entry was resolved although a prefix-only and a substring-only entry
\* come before it in the index
C2_Witness ==
    /\ Searched /\ EqualBasins # {}
    /\ \E i \in PrefixBasins \ EqualBasins : i < Least(EqualBasins)
    /\ \E i \in InsideBasins \ PrefixBasins : i < Least(EqualBasins)
    /\ basinTab # <<>>
    /\ basinTab[1].basinName = basinSearchIndex[Least(EqualBasins)].name

\* C3: when no basin matches, the station committed is the first station of the
\* list one of whose normalized names equals or contains the keyword.
C3_StationSinglePass ==
    (Searched /\ ~SomeBasinMatches /\ HitStations # {}) =>
        /\ op.result = TRUE
        /\ activeTab = "station"
        /\ stationTab = <<stations[Least(HitStations)]>>

\* a station that only contains the keyword was committed although a later station
\* has a name equal to it
C3_Witness ==
    /\ Searched /\ ~SomeBasinMatches
    /\ EqualStations # {}
    /\ Least(HitStations) \notin EqualStations
    /\ stationTab = <<stations[Least(HitStations)]>>

-----------------------------------------------------------------------------
(* Properties of the tab machine, under Spec *)

\* the number of stations whose trimmed basin_name is name
StationsOfBasin(name) ==
    Cardinality({ i \in 1..Len(stations) : OptTrim(stations[i].basin_name) = name })

\* C4: after the station tab is closed, stationTab is null and activeTab is basin
\* if a basin tab is open and none otherwise, whichever tab was active before.
C4_CloseStationTab ==
    op.name = "CloseStationTab" =>
        /\ stationTab = <<>>
        /\ activeTab = IF op.pre.basinTab # <<>> THEN "basin" ELSE "none"
        /\ basinTab = op.pre.basinTab

\* the station tab was closed from the basin tab's view, with both tabs open
C4_Witness ==
    /\ op.name = "CloseStationTab"
    /\ op.pre.activeTab = "basin"
    /\ op.pre.stationTab # <<>>
    /\ activeTab = "basin"

\* C5: after the basin tab is closed, basinTab is null; if activeTab was basin it is
\* station when a station tab is open and none otherwise; if activeTab was station,
\* activeTab and stationTab are as before.
C5_CloseBasinTab ==
    op.name = "CloseBasinTab" =>
        /\ basinTab = <<>>
        /\ stationTab = op.pre.stationTab
        /\ op.pre.activeTab = "basin" =>
               activeTab = IF op.pre.stationTab # <<>> THEN "station" ELSE "none"
        /\ op.pre.activeTab = "station" => activeTab = "station"

\* the basin tab was closed from the station tab's view
C5_Witness ==
    /\ op.name = "CloseBasinTab"
    /\ op.pre.activeTab = "station"
    /\ op.pre.basinTab # <<>>
    /\ activeTab = "station"

\* the last handler committed a station from a search: the search returned true and
\* no basin matched its keyword
SearchCommitted == Searched /\ op.result /\ ~SomeBasinMatches

\* C6: after a station is committed, from a marker or from a search, stationTab is
\* that station, the preview is null, activeTab is station and basinTab is as before.
C6_CommitStation ==
    /\ op.name = "commitStationSelection" => stationTab = <<op.arg>>
    /\ SearchCommitted => stationTab = <<stations[Least(HitStations)]>>
    /\ (op.name = "commitStationSelection" \/ SearchCommitted) =>
        /\ previewStationId = Null
        /\ activeTab = "station"
        /\ basinTab = op.pre.basinTab

\* a search committed a station while a popup was previewing one and a basin tab was open
C6_Witness ==
    /\ SearchCommitted
    /\ op.pre.previewStationId # Null
    /\ op.pre.basinTab # <<>>
    /\ stationTab # <<>>

\* C7: after a basin tab is opened, by a search or by the inline link of a station,
\* basinTab is {basinName, stationCount} with stationCount the number of stations
\* whose trimmed basin_name is basinName, activeTab is basin and stationTab is as
\* before; the link of a whitespace-only name changes no tab.
C7_OpenBasinTab ==
    /\ (op.name = "OpenBasinLink" /\ Trim(op.arg) # <<>>) =>
        /\ basinTab # <<>>
        /\ basinTab[1].basinName = Trim(op.arg)
    /\ (op.name = "OpenBasinLink" /\ Trim(op.arg) = <<>>) => Tabs = op.pre
    /\ ((op.name = "OpenBasinLink" /\ Trim(op.arg) # <<>>) \/ (Searched /\ SomeBasinMatches)) =>
        /\ basinTab # <<>>
        /\ basinTab[1].stationCount = StationsOfBasin(basinTab[1].basinName)
        /\ basinTab[1].stationCount > 0
        /\ activeTab = "basin"
        /\ stationTab = op.pre.stationTab

\* the inline link of a station whose basin_name is padded opened a basin of two stations
C7_Witness ==
    /\ op.name = "OpenBasinLink"
    /\ op.arg # Trim(op.arg)
    /\ basinTab # <<>>
    /\ basinTab[1].stationCount = 2
    /\ stationTab # <<>>

-----------------------------------------------------------------------------
(* Properties of the per-tab maps, under SpecPanel *)

OpenedDefaults ==
    /\ selectedPreset = "null"
    /\ peakStartDate = 0 /\ peakEndDate = 0
    /\ rangeStartDate = minPeakDate /\ rangeEndDate = maxPeakDate

\* C8: a close button removes the entry of the tab it closes from the preset map
\* and from the date-range map; the key stays out of both maps for as long as the
\* tab is closed, whatever presets and dates were set on it before, and the step
\* that opens the entity again shows no preset and the full-span default range.
C8_CloseClearsTabEntries ==
    /\ [](/\ op.name \in {"CloseStationTab", "CloseBasinTab"} =>
               /\ op.arg \notin DOMAIN selectedPresetByTab
               /\ op.arg \notin DOMAIN peakDateRangeByTab
          /\ \A k \in closedKeys :
               k \notin DOMAIN selectedPresetByTab /\ k \notin DOMAIN peakDateRangeByTab)
    /\ [][activeTabKey' \in closedKeys => OpenedDefaults']_vars

\* a tab that carried a preset and a date range was closed by its button
C8_Witness ==
    /\ op.name \in {"CloseStationTab", "CloseBasinTab"}
    /\ op.arg \in op.pre.presetKeys
    /\ op.arg \in op.pre.rangeKeys

\* C9: whenever both ends of the effective range are known, the start is not
\* after the end, after any sequence of setStartDate and setEndDate.
C9_RangeNeverInverted ==
    (rangeStartDate # 0 /\ rangeEndDate # 0) => rangeStartDate <= rangeEndDate

-----------------------------------------------------------------------------
(* Properties of the ranged request, under SpecFetch *)

\* C10: what the panel shows of the ranged request is the answer to the request
\* of the current selection, range and preset, never that of another request,
\* whichever arrives last: with no ranged request current nothing ranged and no
\* error is shown; ranged data on show is the server's answer to the current url;
\* an error on show is the failure of the current url; and a ranged request is
\* only ever started for the current url.
C10_LastRequestWins ==
    /\ rangeRequestUrl = <<>> =>
           /\ rangeData = <<>> /\ ~rangeError /\ matchedSeries = <<>>
           /\ rangeMatchedEvents = totalEvents
    /\ rangeRequestUrl # <<>> =>
           /\ rangeData # <<>> =>
                  /\ rangeData[1] = ServerResponse(rangeRequestUrl[1])
                  /\ eventSummary = <<ServerResponse(rangeRequestUrl[1]).summary>>
           /\ (rangeData # <<>> \/ rangeError) =>
                  swrCache[rangeRequestUrl[1]].request = rangeRequestUrl
    /\ op.name = "RangeFetchStart" => rangeRequestUrl = <<op.arg>>

\* the answer or the failure of a superseded ranged request arrives while the
\* answer of the current ranged request is on show
C10_Witness ==
    /\ op.name \in {"FetchResolve", "FetchFail"}
    /\ op.arg.ranged
    /\ rangeRequestUrl # <<>> /\ rangeRequestUrl # <<op.arg>>
    /\ rangeData # <<>>

-----------------------------------------------------------------------------
(* Properties of the summary request, under SpecSummary *)

\* C11: the lifetime summary of a selection key is fetched once: no request for a
\* summary url starts while the cache already holds the answer to that url.
C11_SummaryFetchedOnce ==
    \A u \in DOMAIN swrCache :
        ~u.ranged => ~(swrCache[u].isLoading /\ swrCache[u].data # <<>>)

-----------------------------------------------------------------------------
(* Properties of the ranged request and of bursts of date edits, under SpecRange *)

\* a tab is on show, both ends of the effective range are known, and a preset is
\* selected or the effective range is not the default span
RangedQueryAllowed ==
    /\ isOpen
    /\ rangeStartDate # 0 /\ rangeEndDate # 0
    /\ \/ selectedPreset # "null"
       \/ rangeStartDate # minPeakDate
       \/ rangeEndDate # maxPeakDate

LifetimeSummary == IF summaryData = <<>> THEN <<>> ELSE <<summaryData[1].summary>>

\* C12: a ranged request exists, and is started, only when a selection is active,
\* both effective range ends are known and a preset is selected or the range is not
\* the default span; the request started is the one for the effective range; with
\* no preset and the range equal to the default span there is no ranged request
\* and the summary on show is the lifetime summary.
C12_RangedQueryConditions ==
    /\ rangeRequestUrl # <<>> => RangedQueryAllowed
    /\ op.name \in {"RangeFetchStart", "RangeRevalidate"} =>
           /\ RangedQueryAllowed
           /\ op.arg.ranged
           /\ op.arg.peakStart = rangeStartDate /\ op.arg.peakEnd = rangeEndDate
    /\ (selectedPreset = "null" /\ rangeStartDate = minPeakDate
          /\ rangeEndDate = maxPeakDate) =>
           /\ rangeRequestUrl = <<>>
           /\ rangeData = <<>>
           /\ eventSummary = LifetimeSummary

\* a date typed equal to the default end of the span, no preset: no ranged request,
\* the lifetime summary is on show
C12_Witness ==
    /\ op.name \in {"setStartDate", "setEndDate"} /\ op.arg # 0
    /\ selectedPreset = "null"
    /\ peakStartDate = minPeakDate \/ peakEndDate = maxPeakDate
    /\ rangeStartDate = minPeakDate /\ rangeEndDate = maxPeakDate
    /\ rangeRequestUrl = <<>> /\ eventSummary # <<>>

\* C13: a burst of date edits, each within the quiescence window of the one
\* before, causes at most one ranged request.
C13_BurstOneRequest == burst.open => burst.requests <= 1

-----------------------------------------------------------------------------
(* Properties of the chart derivations, under SpecCharts *)

Derived == op.name = "ChartsDerive"

RECURSIVE SumCounts(_)
SumCounts(counts) ==
    IF counts = <<>> THEN 0 ELSE Head(counts).count + SumCounts(Tail(counts))

Parseable(item) == Len(item.peak_time) = 2

\* C14: monthlyFrequency has 12 entries, months 1..12 ascending, counts that are
\* natural numbers and sum to the number of points whose peak time parses; each
\* month counts the parseable points of that month, wherever an unparseable
\* point stands in the series.
C14_MonthlyFrequency ==
    Derived =>
        LET series == op.arg
            frequency == op.result.monthlyFrequency
        IN  /\ Len(frequency) = 12
            /\ \A m \in 1..12 : frequency[m].month = m /\ frequency[m].count \in Nat
            /\ SumCounts(frequency) = Len(SelectSeq(series, Parseable))
            /\ \A m \in 1..12 :
                   frequency[m].count =
                       Cardinality({ i \in 1..Len(series) :
                                       /\ Parseable(series[i])
                                       /\ (series[i].peak_time[1] - 1) % 12 = m - 1 })

\* a series with an unparseable point in front of a parseable one
C14_Witness ==
    /\ Derived
    /\ \E i, j \in 1..Len(op.arg) :
           i < j /\ ~Parseable(op.arg[i]) /\ Parseable(op.arg[j])
    /\ SumCounts(op.result.monthlyFrequency) = Len(op.arg) - 1

C14_EmptySeries ==
    /\ Derived /\ op.arg = <<>>
    /\ op.result.monthlyFrequency = EmptyMonthCounts
    /\ op.result.peakDistribution = <<>>

PositionIn(series, item) == CHOOSE i \in 1..Len(series) : series[i] = item

\* C15: peakDistribution holds exactly the points with a finite peak value, in
\* non-increasing order of peak value, points of equal value in their input order,
\* with ranks 1..N in that order; the empty series gives the empty distribution.
C15_PeakDistribution ==
    Derived =>
        LET series == op.arg
            sorted == op.result.peakSorted
            distribution == op.result.peakDistribution
            finite == { i \in 1..Len(series) : series[i].peak_value # NaN }
        IN  /\ Len(sorted) = Cardinality(finite)
            /\ { sorted[k] : k \in 1..Len(sorted) } = { series[i] : i \in finite }
            /\ \A k \in 1..Len(sorted) - 1 :
                   \/ sorted[k].peak_value > sorted[k + 1].peak_value
                   \/ /\ sorted[k].peak_value = sorted[k + 1].peak_value
                      /\ PositionIn(series, sorted[k]) < PositionIn(series, sorted[k + 1])
            /\ Len(distribution) = Len(sorted)
            /\ \A k \in 1..Len(distribution) :
                   /\ distribution[k].rank = k
                   /\ distribution[k].peak_value = sorted[k].peak_value
            /\ series = <<>> => distribution = <<>>

\* the series of peak values 3, 7, 7, 1 gives the ranks (1,7), (2,7), (3,3), (4,1)
C15_Witness ==
    /\ Derived
    /\ [i \in 1..Len(op.arg) |-> op.arg[i].peak_value] = <<3, 7, 7, 1>>
    /\ op.result.peakDistribution =
           << [rank |-> 1, peak_value |-> 7], [rank |-> 2, peak_value |-> 7],
              [rank |-> 3, peak_value |-> 3], [rank |-> 4, peak_value |-> 1] >>
    /\ op.result.peakSorted[1].id < op.result.peakSorted[2].id

-----------------------------------------------------------------------------
(* Properties of the suggestions, under SpecSuggest *)

SuggestedOfType(type) ==
    LET OfType(entry) == entry.type = type
        entries == SelectSeq(searchSuggestions, OfType)
    IN  [i \in 1..Len(entries) |-> entries[i].value]

\* the basin names whose normalized name starts with the normalized input
MatchingBasins ==
    { name \in BasinNames :
        normalizeText(searchText) # <<>>
        /\ StartsWith(normalizeText(name), normalizeText(searchText)) }

\* the trimmed primary names whose normalized form starts with the normalized input
MatchingStationNames ==
    { Trim(stations[i].station_name) :
        i \in { j \in 1..Len(stations) :
                  /\ normalizeText(searchText) # <<>>
                  /\ Truthy(stations[j].station_name)
                  /\ Trim(stations[j].station_name) # <<>>
                  /\ StartsWith(normalizeText(stations[j].station_name),
                                normalizeText(searchText)) } }

\* group is the first SuggestionCap of the matching values in ascending order
FirstInOrder(group, matching) ==
    /\ Len(group) = (IF Cardinality(matching) < SuggestionCap
                     THEN Cardinality(matching) ELSE SuggestionCap)
    /\ \A i \in 1..Len(group) : group[i] \in matching
    /\ \A i \in 1..Len(group) - 1 : localeCompare(group[i], group[i + 1]) < 0
    /\ \A i \in 1..Len(group) :
           \A other \in matching \ { group[j] : j \in 1..Len(group) } :
               localeCompare(group[i], other) <= 0

\* C16: the suggestions are at most 8 basins followed by at most 8 stations, every
\* Basin entry before every Station entry, each group in ascending order on its
\* own and holding the first 8 of its matches in that order.
C16_SuggestionsCapAndOrder ==
    LET basins == SuggestedOfType("Basin")
        names == SuggestedOfType("Station")
    IN  /\ Len(basins) <= 8 /\ Len(names) <= 8 /\ Len(searchSuggestions) <= 16
        /\ \A i, j \in 1..Len(searchSuggestions) :
               (searchSuggestions[i].type = "Basin"
                /\ searchSuggestions[j].type = "Station") => i < j
        /\ FirstInOrder(basins, MatchingBasins)
        /\ FirstInOrder(names, MatchingStationNames)

\* ten basins and ten station names match: eight of each are suggested, and the
\* first station sorts before the last basin
C16_Witness ==
    /\ Cardinality(MatchingBasins) = 10
    /\ Cardinality(MatchingStationNames) = 10
    /\ Len(searchSuggestions) = 16
    /\ localeCompare(searchSuggestions[9].value, searchSuggestions[8].value) < 0

\* C17: no suggestion for an empty normalized input; a basin suggestion is the
\* name of a basin whose normalized name starts with the keyword; a station
\* suggestion is the trimmed primary name of a station whose normalized primary
\* name starts with the keyword; no value twice within a group.
C17_SuggestionContent ==
    LET basins == SuggestedOfType("Basin")
        names == SuggestedOfType("Station")
        keyword == normalizeText(searchText)
    IN  /\ keyword = <<>> => searchSuggestions = <<>>
        /\ \A i \in 1..Len(basins) :
               /\ basins[i] \in BasinNames
               /\ StartsWith(normalizeText(basins[i]), keyword)
        /\ \A i \in 1..Len(names) :
               \E j \in 1..Len(stations) :
                   /\ stations[j].station_name # Null
                   /\ names[i] = Trim(stations[j].station_name)
                   /\ StartsWith(normalizeText(stations[j].station_name), keyword)
        /\ \A i, j \in 1..Len(basins) : i # j => basins[i] # basins[j]
        /\ \A i, j \in 1..Len(names) : i # j => names[i] # names[j]

\* a keyword that a basin name only contains and that only an alternate name of
\* a station starts with, while a primary name starts with it too: only the
\* primary name is suggested
C17_Witness ==
    /\ normalizeText(searchText) # <<>>
    /\ \E name \in BasinNames :
           /\ Includes(normalizeText(name), normalizeText(searchText))
           /\ ~StartsWith(normalizeText(name), normalizeText(searchText))
    /\ \E j \in 1..Len(stations) :
           /\ ~StartsWith(normalizeText(stations[j].station_name), normalizeText(searchText))
           /\ \/ StartsWith(normalizeText(stations[j].station_name2), normalizeText(searchText))
              \/ StartsWith(normalizeText(stations[j].station_name3), normalizeText(searchText))
    /\ SuggestedOfType("Station") # <<>>
    /\ SuggestedOfType("Basin") = <<>>

\* a search that stops at a guard: the keyword trims to nothing, or the map
\* instance is not there yet
SearchRefused ==
    /\ op.name = "handleSearchSubmit"
    /\ (Trim(op.arg) = <<>> \/ ~mapInstance)

\* C18: a search with an empty or whitespace-only keyword, or made before the map
\* is ready, returns false with a hint that is not empty and is not the no-match
\* hint, leaves the preview and the selected search item cleared, and leaves
\* basinTab, stationTab, activeTab and everything else as they were.
C18_RefusedSearch ==
    /\ [](SearchRefused =>
            /\ op.result = FALSE
            /\ searchHint = (IF Trim(op.arg) = <<>> THEN HintEnterName ELSE HintMapNotReady)
            /\ searchHint \notin {"", noMatchHint}
            /\ previewStationId = Null
            /\ selectedSearchItem = <<>>
            /\ basinTab = op.pre.basinTab
            /\ stationTab = op.pre.stationTab
            /\ activeTab = op.pre.activeTab)
    /\ [][SearchRefused' =>
            UNCHANGED <<stations, mapInstance, basinTab, stationTab, activeTab,
                        selectedStationId, searchText, panelVars, swrCache>>]_vars

\* a whitespace-only keyword was searched while both tabs were open and a popup
\* was previewing a station
C18_Witness ==
    /\ SearchRefused
    /\ op.arg = <<" ">>
    /\ mapInstance
    /\ op.pre.basinTab # <<>>
    /\ op.pre.stationTab # <<>>
    /\ op.pre.previewStationId # Null

\* a search that passed the guards and whose keyword no basin name and no
\* station name equals or contains
SearchMissed == Searched /\ ~SomeBasinMatches /\ HitStations = {}

\* C19: a search whose non-empty keyword matches no basin and no station returns
\* false, sets the no-match hint, leaves the preview and the selected search item
\* cleared, and leaves basinTab, stationTab and activeTab as they were.
C19_NoMatchSearch ==
    SearchMissed =>
        /\ op.result = FALSE
        /\ searchHint = noMatchHint
        /\ previewStationId = Null
        /\ selectedSearchItem = <<>>
        /\ basinTab = op.pre.basinTab
        /\ stationTab = op.pre.stationTab
        /\ activeTab = op.pre.activeTab

\* a keyword that matches nothing was searched while both tabs were open and a
\* popup was previewing a station
C19_Witness ==
    /\ SearchMissed
    /\ op.pre.basinTab # <<>>
    /\ op.pre.stationTab # <<>>
    /\ op.pre.previewStationId # Null

\* the step just taken opened a tab: a marker or a search committed a station, a
\* search resolved a basin, or the basin link was followed to a basin name
TabOpened ==
    \/ op.name = "commitStationSelection"
    \/ op.name = "handleSearchSubmit" /\ op.result
    \/ op.name = "OpenBasinLink" /\ Trim(op.arg) # <<>>

TabClosed == op.name \in {"CloseStationTab", "CloseBasinTab"}

\* C20: a popup opening or closing sets the preview to the station it is given
\* and changes none of activeTab, basinTab and stationTab; the preview is null
\* right after every tab open, every tab close and every station commit, and
\* after any step that changes which basin or station a tab holds.
C20_PreviewOrthogonal ==
    /\ [](op.name = "handlePreviewChange" =>
              /\ previewStationId = op.arg
              /\ basinTab = op.pre.basinTab
              /\ stationTab = op.pre.stationTab
              /\ activeTab = op.pre.activeTab)
    /\ [](TabOpened \/ TabClosed => previewStationId = Null)
    /\ [][(basinTab' # basinTab \/ stationTab' # stationTab) =>
               previewStationId' = Null]_vars

\* a popup opened on a station while the basin tab was the active one and the
\* station tab was open behind it
C20_Witness ==
    /\ op.name = "handlePreviewChange"
    /\ op.arg # Null
    /\ op.pre.activeTab = "basin"
    /\ op.pre.stationTab # <<>>
    /\ previewStationId # Null

\* a tab was closed while a popup was previewing a station
C20_CloseWitness ==
    /\ TabClosed
    /\ op.pre.previewStationId # Null

\* C21: the step in which a summary or ranged fetch fails changes none of
\* activeTab, basinTab, stationTab, the preset map and the date-range map, and no
\* cache entry other than that of the failed request, whose data it keeps and
\* whose error flag it raises; the flag shows in the panel while the failed
\* request is the one on show.
C21_FailedFetchIsLocal ==
    /\ [][op'.name = "FetchFail" =>
            /\ UNCHANGED <<basinTab, stationTab, activeTab, selectedStationId,
                           previewStationId, selectedPresetByTab, peakDateRangeByTab>>
            /\ DOMAIN swrCache' = DOMAIN swrCache
            /\ \A u \in DOMAIN swrCache \ {op'.arg} : swrCache'[u] = swrCache[u]
            /\ swrCache'[op'.arg].data = swrCache[op'.arg].data
            /\ swrCache'[op'.arg].error]_vars
    /\ [](op.name = "FetchFail" =>
            /\ summaryRequestUrl = <<op.arg>> => summaryError
            /\ rangeRequestUrl = <<op.arg>> => rangeError)

\* a ranged fetch of the station on show failed while the summary of the basin
\* was in the cache and the basin tab carried a preset
C21_Witness ==
    /\ op.name = "FetchFail"
    /\ op.arg.ranged
    /\ rangeRequestUrl = <<op.arg>>
    /\ \E u \in DOMAIN swrCache :
           /\ u.path # op.arg.path
           /\ swrCache[u].data # <<>>
    /\ \E k \in DOMAIN selectedPresetByTab : k # activeTabKey

\* a summary fetch failed while it was the request on show
C21_SummaryWitness ==
    /\ op.name = "FetchFail"
    /\ ~op.arg.ranged
    /\ summaryRequestUrl = <<op.arg>>

\* the basin_name values of the station set that are neither null nor blank, as
\* the stations carry them
RawBasinNames ==
    { name \in { stations[i].basin_name : i \in 1..Len(stations) } :
        name # Null /\ Trim(name) # <<>> }

IndexedBasinNames == { basinSearchIndex[i].name : i \in 1..Len(basinSearchIndex) }

\* C22: the basin index has one entry per distinct non-blank basin name, no entry
\* comes from a null, empty or whitespace-only basin_name, and the name of every
\* entry is the basin_name of some station of the set exactly as that station
\* carries it.
C22_BasinIndexEntries ==
    /\ \A i, j \in 1..Len(basinSearchIndex) :
           i # j => basinSearchIndex[i].name # basinSearchIndex[j].name
    /\ \A name \in IndexedBasinNames : name # Null /\ Trim(name) # <<>>
    /\ \A name \in RawBasinNames : Trim(name) \in { Trim(n) : n \in IndexedBasinNames }
    /\ \A name \in IndexedBasinNames :
           \E i \in 1..Len(stations) : stations[i].basin_name = name

\* C23: the key of the selection the panel aggregates is "s:" + station_id of the
\* station tab while activeTab is station, "b:" + basinName of the basin tab while
\* activeTab is basin, and null while activeTab is none, whichever other tab is
\* open; no station key equals a basin key.
C23_OneCurrentSelection ==
    /\ activeTab = "station" =>
           /\ stationTab # <<>>
           /\ activeTabKey = <<"s", ":">> \o stationTab[1].station_id
    /\ activeTab = "basin" =>
           /\ basinTab # <<>>
           /\ activeTabKey = <<"b", ":">> \o basinTab[1].basinName
    /\ activeTab = "none" => activeTabKey = Null
    /\ \A i \in 1..Len(stations) : \A name \in BasinNames :
           StationKey(stations[i]) # BasinKey(name)

\* both tabs are open and the basin tab is the active one
C23_Witness ==
    /\ basinTab # <<>>
    /\ stationTab # <<>>
    /\ activeTab = "basin"
    /\ activeTabKey = BasinKey(basinTab[1].basinName)

\* C24: the range url, and every ranged request when it starts, carries
\* includeMatchedSeries exactly when a preset is selected on the active tab, and
\* while no preset is selected the series the charts are drawn from is empty.
C24_SeriesOnlyWithPreset ==
    /\ rangeRequestUrl # <<>> =>
           (rangeRequestUrl[1].includeMatchedSeries <=> selectedPreset # "null")
    /\ op.name = "RangeFetchStart" =>
           (op.arg.includeMatchedSeries <=> selectedPreset # "null")
    /\ selectedPreset = "null" => matchedSeries = <<>>

\* the preset was switched off after its series had arrived: the range of the tab
\* is still shown, from an answer without series, and the answer with the
\* series is still in the cache
C24_Witness ==
    /\ selectedPreset = "null"
    /\ rangeData # <<>>
    /\ \E u \in RangedRequests :
           /\ u.includeMatchedSeries
           /\ u.path = rangeRequestUrl[1].path
           /\ u.peakStart = rangeRequestUrl[1].peakStart
           /\ u.peakEnd = rangeRequestUrl[1].peakEnd
           /\ swrCache[u].data # <<>>
           /\ swrCache[u].data[1].matchedSeries # <<>>
           /\ swrCache[u].data[1].matchedSeries[1] # <<>>

\* the peak dates of all events of the selection on show, as the event store
\* holds them
LifetimeDates ==
    IF summaryRequestUrl = <<>> THEN {}
    ELSE LET matched == ServerMatched(summaryRequestUrl[1])
         IN  { matched[i].peak_time[1] : i \in 1..Len(matched) }

FirstDate(dates) == IF dates = {} THEN 0 ELSE CHOOSE d \in dates : \A e \in dates : d <= e
LastDate(dates) == IF dates = {} THEN 0 ELSE CHOOSE d \in dates : \A e \in dates : e <= d

\* C25: once the lifetime summary of the active selection is loaded, an end of
\* the effective range with no stored override is the first (last) peak date of
\* the selection, and an end with a stored override is that override, whatever
\* is stored for the other end.
C25_DefaultRange ==
    (activeTabKey # Null /\ summaryData # <<>>) =>
        /\ rangeStartDate = (IF CurrentRangeEntry.start = 0 THEN FirstDate(LifetimeDates)
                             ELSE CurrentRangeEntry.start)
        /\ rangeEndDate = (IF CurrentRangeEntry.end = 0 THEN LastDate(LifetimeDates)
                           ELSE CurrentRangeEntry.end)

\* a start date inside the span is stored and the end has no override: the
\* effective end is the last peak date
C25_Witness ==
    /\ activeTabKey # Null /\ summaryData # <<>>
    /\ CurrentRangeEntry.start # 0
    /\ CurrentRangeEntry.end = 0
    /\ rangeStartDate # minPeakDate
    /\ rangeEndDate = maxPeakDate /\ rangeEndDate # 0

\* no override is stored and the span has two different ends
C25_UnsetWitness ==
    /\ activeTabKey # Null /\ summaryData # <<>>
    /\ activeTabKey \notin DOMAIN peakDateRangeByTab
    /\ rangeStartDate # 0 /\ rangeStartDate < rangeEndDate

\* C26: in every state of the tab machine activeTab is station only while a
\* station tab is open, basin only while a basin tab is open, and none exactly
\* when neither tab is open.
C26_ActiveTabIsOpen ==
    /\ activeTab \in {"none", "station", "basin"}
    /\ activeTab = "station" => stationTab # <<>>
    /\ activeTab = "basin" => basinTab # <<>>
    /\ activeTab = "none" <=> (stationTab = <<>> /\ basinTab = <<>>)

\* the last open tab was closed, after both tabs had been open
C26_Witness ==
    /\ op.name \in {"CloseStationTab", "CloseBasinTab"}
    /\ activeTab = "none"
    /\ Cardinality(closedKeys) = 2

\* the keys of the tabs that are open
OpenTabKeys ==
    (IF stationTab # <<>> THEN {StationKey(stationTab[1])} ELSE {})
        \cup (IF basinTab # <<>> THEN {BasinKey(basinTab[1].basinName)} ELSE {})

\* C27: every key of the preset map and of the date-range map is the key of a tab
\* that is open; so after the station tab is taken over by another station, or
\* the basin tab by another basin, nothing is stored for the entity that left.
C27_EntriesOfOpenTabs ==
    (DOMAIN selectedPresetByTab \cup DOMAIN peakDateRangeByTab) \subseteq OpenTabKeys

\* map next differs from map prev at most in the entry of key
SameButFor(prev, next, key) ==
    /\ DOMAIN prev \ {key} = DOMAIN next \ {key}
    /\ \A k \in DOMAIN prev \ {key} : next[k] = prev[k]

\* what a map holds for key, or none
StoredFor(map, key, none) == IF key \in DOMAIN map THEN map[key] ELSE none

\* C28: a date edit changes the date-range map at most in the entry of the
\* active key and leaves the preset map alone; a preset click changes the preset
\* map at most in the entry of the active key and leaves the date-range map
\* alone; activating the other open tab changes neither map, and the preset and
\* the stored dates then on show are those stored for the tab activated.
C28_PerTabIndependence ==
    [][/\ op'.name \in {"setStartDate", "setEndDate"} =>
            /\ SameButFor(peakDateRangeByTab, peakDateRangeByTab', activeTabKey)
            /\ UNCHANGED selectedPresetByTab
       /\ op'.name = "PresetClick" =>
            /\ SameButFor(selectedPresetByTab, selectedPresetByTab', activeTabKey)
            /\ UNCHANGED peakDateRangeByTab
       /\ op'.name \in {"ActivateStationTab", "ActivateBasinTab"} =>
            /\ UNCHANGED <<selectedPresetByTab, peakDateRangeByTab>>
            /\ selectedPreset' = StoredFor(selectedPresetByTab, activeTabKey', "null")
            /\ peakStartDate' =
                   StoredFor(peakDateRangeByTab, activeTabKey', [start |-> 0, end |-> 0]).start
            /\ peakEndDate' =
                   StoredFor(peakDateRangeByTab, activeTabKey', [start |-> 0, end |-> 0]).end]_vars

\* the station tab was activated from the basin tab while the two tabs held
\* different presets and different date ranges
C28_Witness ==
    /\ op.name = "ActivateStationTab"
    /\ op.pre.activeTab = "basin"
    /\ basinTab # <<>>
    /\ {activeTabKey, BasinKey(basinTab[1].basinName)} \subseteq
           (DOMAIN selectedPresetByTab \cap DOMAIN peakDateRangeByTab)
    /\ selectedPresetByTab[activeTabKey] # selectedPresetByTab[BasinKey(basinTab[1].basinName)]
    /\ peakDateRangeByTab[activeTabKey] # peakDateRangeByTab[BasinKey(basinTab[1].basinName)]
    /\ selectedPreset # "null"

\* C29: once the map is ready, a click on a Station suggestion of value v ends
\* with activeTab = station on a station whose trimmed primary name is v, and a
\* click on a Basin suggestion of value v ends with activeTab = basin on the
\* basin named v.
C29_SuggestionOpensSuggested ==
    (op.name = "handleSuggestionSelect" /\ mapInstance) =>
        /\ op.arg.type = "Station" =>
               /\ activeTab = "station"
               /\ stationTab # <<>>
               /\ OptTrim(stationTab[1].station_name) = op.arg.value
        /\ op.arg.type = "Basin" =>
               /\ activeTab = "basin"
               /\ basinTab # <<>>
               /\ basinTab[1].basinName = op.arg.value

\* the last handler was a search: the form was submitted or a suggestion clicked
SearchRan == op.name \in {"handleSearchSubmit", "handleSuggestionSelect"}

\* C30: right after a search that returned true, and for as long as the search
\* text is not edited, the hint under the search box is empty; and when the
\* no-results hint is on show right after a search, that search returned false
\* on a keyword that matched nothing.
C30_HintAfterSearch ==
    /\ (SearchRan /\ op.result) => searchHintText = ""
    /\ (SearchRan /\ searchHintText = noMatchHint) =>
           /\ ~op.result
           /\ searchHint = noMatchHint

====
